---- MODULE Spec2Model ----
(***************************************************************************)
(* NYC CitiBike dashboard (src/Dashboard_Part_2.py): one Streamlit script  *)
(* that is re-run from top to bottom on every user interaction.  A state  *)
(* is the loaded dataset, the selected page, the values of the widgets of *)
(* the page on screen and what the last run of the script produced.       *)
(* A DataFrame derived from df is represented by the sequence of its      *)
(* index labels (row numbers of df); derived columns are computed from    *)
(* the rows those labels name.  Chart drawing is not modelled.            *)
(***************************************************************************)
EXTENDS Integers, Sequences, FiniteSets, TLC

VARIABLES
    df,          \* the frame load_data() returns: a sequence of rows
    columns,     \* df.columns: the set of column names of the CSV
    tie_order,   \* how this build's sort orders equal keys
    page,        \* the sidebar selectbox "Choose a page"
    widgets,     \* values of the sidebar widgets of the page on screen
    out,         \* what the last run of the script produced
    part1        \* what the earlier one-page dashboard (part_000) produced

vars == <<df, columns, tie_order, page, widgets, out, part1>>

-----------------------------------------------------------------------------
(* Bounds of the model *)

MaxDay == 2          \* trips start on days 1..MaxDay
MaxRows == 2         \* rows of a dataset of DatasetsRows
MaxColRows == 1      \* rows added to the anchor row in DatasetsCols
MaxRankRows == 7     \* rows of a dataset of DatasetsRank
MaxShortRows == 3    \* rows of a dataset of DatasetsRank with few stations
MaxBalRows == 1      \* rows added to the anchor row in DatasetsBal

-----------------------------------------------------------------------------
(* Program constants *)

TopNMin == 5          \* slider(label, 5, 30, 10): the smallest position
TopNDefault == 10     \* and the one it starts at
HoursPerDay == 24

AllColumns ==
    {"ride_id", "started_at", "member_casual", "start_station_name",
     "end_station_name", "TMAX", "TMIN", "PRCP"}

Pages ==
    {"Intro", "Overview", "Trips & Time Trends",
     "Dual-Axis: Trips vs Temperature", "Popular Stations", "Weather Impact",
     "Stations & Routes", "Kepler.gl Map", "Station Balance (Supply Problem)"}

RiderTypes == {"All", "member", "casual"}

-----------------------------------------------------------------------------
(* Cells of the CSV and their conversions *)

NaN == "NaN"         \* a missing text cell (ride_id, member_casual)
NoStation == 0       \* a missing station name; stations are numbered 1..
NaT == -1            \* pd.NaT: a timestamp that did not parse
NaNNum == -9999      \* float NaN: a number that did not parse

\* A started_at cell is the text of a timestamp, <<day, hour>>, or text
\* that is no timestamp, <<>>.  Timestamps are counted in hours.
ToDatetime(cell) ==
    IF Len(cell) = 2 THEN cell[1] * HoursPerDay + cell[2] ELSE NaT

\* A weather cell is the text of a number, <<n>>, or text that is none, <<>>.
ToNumeric(cell) == IF Len(cell) = 1 THEN cell[1] ELSE NaNNum

FloorD(ts) == ts - (ts % HoursPerDay)        \* .dt.floor("D")
DateOf(ts) == ts \div HoursPerDay            \* .dt.date, a day number
HourOf(ts) == ts % HoursPerDay               \* .dt.hour

\* Day 1 is 31 January 2022 (the year of the trips), day 2 is 1 February:
\* EpochDay days of the year lie before day 1.
EpochDay == 30

MonthNames ==
    <<"January", "February", "March", "April", "May", "June",
      "July", "August", "September", "October", "November", "December">>

DaysInMonth == <<31, 28, 31, 30, 31, 30, 31, 31, 30, 31, 30, 31>>

\* the number of the month the n-th day of the year lies in, counting
\* from month m
RECURSIVE MonthFrom(_, _)
MonthFrom(m, n) ==
    IF m = Len(DaysInMonth) \/ n <= DaysInMonth[m] THEN m
    ELSE MonthFrom(m + 1, n - DaysInMonth[m])

MonthName(ts) == MonthNames[MonthFrom(1, DateOf(ts) + EpochDay)]    \* .dt.month_name()

-----------------------------------------------------------------------------
(* Sequences *)

Min2(a, b) == IF a <= b THEN a ELSE b

Reverse(s) == [i \in 1..Len(s) |-> s[Len(s) + 1 - i]]

Head_(s, n) == SubSeq(s, 1, Min2(n, Len(s)))          \* .head(n)

Range(s) == {s[i] : i \in DOMAIN s}

Count(s, x) == Cardinality({i \in DOMAIN s : s[i] = x})

\* The distinct elements of s in the order of their first appearance: the
\* order in which a hash table hands back its keys.
FirstSeen(s) ==
    LET first == SelectSeq([i \in 1..Len(s) |-> i],
                           LAMBDA i : \A j \in 1..(i - 1) : s[j] # s[i])
    IN [k \in 1..Len(first) |-> s[first[k]]]

\* A sort that keeps equal keys in the order they come in: an element goes
\* behind every element with a smaller key (a larger one when descending)
\* and behind the elements with its own key that come before it.
StableSort(s, Key(_), ascending) ==
    LET Before(j, i) ==
            \/ IF ascending THEN Key(s[j]) < Key(s[i]) ELSE Key(s[j]) > Key(s[i])
            \/ Key(s[j]) = Key(s[i]) /\ j < i
        place == [i \in DOMAIN s |-> Cardinality({j \in DOMAIN s : Before(j, i)}) + 1]
    IN [p \in 1..Len(s) |-> s[CHOOSE i \in DOMAIN s : place[i] = p]]

\* Series.sort_values / DataFrame.sort_values with the default
\* kind="quicksort": the keys come out ordered, the relative order of equal
\* keys is whatever this build's sort makes it.  tie_order is that choice,
\* fixed for a session: "first_seen" is a build whose sort is stable, and
\* "last_seen" one whose sort hands equal keys back the other way round.
TieOrders == {"first_seen", "last_seen"}

SortValues(s, Key(_), ascending) ==
    StableSort(IF tie_order = "first_seen" THEN s ELSE Reverse(s), Key, ascending)

CountOf(e) == e.count

\* Series.value_counts(): one (label, count) entry per distinct non-null
\* value, most frequent first.
ValueCounts(values, null) ==
    LET kept == SelectSeq(values, LAMBDA v : v # null)
        keys == FirstSeen(kept)
        counted == [i \in 1..Len(keys) |->
                       [label |-> keys[i], count |-> Count(kept, keys[i])]]
    IN SortValues(counted, CountOf, FALSE)

\* .value_counts().head(n).sort_values(ascending=True)
\* A faulty variant of TopN: the n entries at the tail of value_counts().
\* C7 tells the two apart.
TopNLeast(values, null, n) ==
    SortValues(Head_(Reverse(ValueCounts(values, null)), n), CountOf, TRUE)

TopN(values, null, n) ==
    SortValues(Head_(ValueCounts(values, null), n), CountOf, TRUE)

-----------------------------------------------------------------------------
(* Frames: sequences of index labels of df *)

AllRows == [i \in 1..Len(df) |-> i]

Keep(frame, Test(_)) == SelectSeq(frame, Test)

Started(i) == ToDatetime(df[i].started_at)          \* column started_at, parsed
DateCol(i) == FloorD(Started(i))                    \* column date
Tmax(i) == ToNumeric(df[i].TMAX)
Tmin(i) == ToNumeric(df[i].TMIN)
Prcp(i) == ToNumeric(df[i].PRCP)

Column(frame, Cell(_)) == [k \in 1..Len(frame) |-> Cell(frame[k])]

HasStations(i) ==
    df[i].start_station_name # NoStation /\ df[i].end_station_name # NoStation

\* min_date, max_date = frame["date"].min().date(), frame["date"].max().date()
MinDate(frame) ==
    LET days == {DateOf(DateCol(frame[k])) : k \in DOMAIN frame}
    IN CHOOSE d \in days : \A e \in days : d <= e

MaxDate(frame) ==
    LET days == {DateOf(DateCol(frame[k])) : k \in DOMAIN frame}
    IN CHOOSE d \in days : \A e \in days : d >= e

\* A faulty variant of DateMask: a row passes on either bound.  C1 tells
\* the two apart.
DateMaskEither(frame, start_d, end_d) ==
    Keep(frame, LAMBDA i : DateOf(DateCol(i)) >= start_d \/ DateOf(DateCol(i)) <= end_d)

\* mask = (frame["date"].dt.date >= start_d) & (frame["date"].dt.date <= end_d)
DateMask(frame, start_d, end_d) ==
    Keep(frame, LAMBDA i : DateOf(DateCol(i)) >= start_d /\ DateOf(DateCol(i)) <= end_d)

\* frame[frame["member_casual"] == rider_filter]
RiderMask(frame, rider_filter) ==
    Keep(frame, LAMBDA i : df[i].member_casual = rider_filter)

-----------------------------------------------------------------------------
(* Aggregations *)

RECURSIVE SumOf(_, _)
SumOf(Cell(_), frame) ==
    IF frame = <<>> THEN 0
    ELSE Cell(frame[1]) + SumOf(Cell, Tail(frame))

Identity(x) == x
DateKey(e) == e.date

\* A faulty variant of GroupKeys: one key per row.  C6 tells the two apart.
GroupKeysPerRow(frame) == StableSort(Column(frame, DateCol), Identity, TRUE)

\* frame.groupby("date"): the group keys, ascending
GroupKeys(frame) == StableSort(FirstSeen(Column(frame, DateCol)), Identity, TRUE)

GroupRows(frame, d) == Keep(frame, LAMBDA i : DateCol(i) = d)

GroupSize(group) == Len(group)                                   \* "size"
GroupCount(group) == Len(Keep(group, LAMBDA i : df[i].ride_id # NaN))  \* "count"

\* A mean is kept as <<sum, number of values>>; avg_temp is (TMAX + TMIN) / 2.
MeanAvgTemp(group) == <<SumOf(Tmax, group) + SumOf(Tmin, group), 2 * Len(group)>>
MeanPrcp(group) == <<SumOf(Prcp, group), Len(group)>>

\* Trips & Time Trends: daily
DailyTrips(frame) ==
    LET keys == GroupKeys(frame)
    IN SortValues([k \in 1..Len(keys) |->
                      [date |-> keys[k],
                       trip_count |-> GroupSize(GroupRows(frame, keys[k]))]],
                  DateKey, TRUE)

\* Weather Impact: daily_weather, either branch
DailyWeather(frame) ==
    LET keys == GroupKeys(frame)
        TripCount(g) == IF "ride_id" \in columns THEN GroupCount(g) ELSE GroupSize(g)
    IN SortValues([k \in 1..Len(keys) |->
                      [date |-> keys[k],
                       trip_count |-> TripCount(GroupRows(frame, keys[k])),
                       avg_temp |-> MeanAvgTemp(GroupRows(frame, keys[k])),
                       prcp |-> MeanPrcp(GroupRows(frame, keys[k]))]],
                  DateKey, TRUE)

\* Dual-Axis: daily_summary
DailySummary(frame) ==
    LET keys == GroupKeys(frame)
    IN SortValues([k \in 1..Len(keys) |->
                      [date |-> keys[k],
                       trip_count |-> GroupCount(GroupRows(frame, keys[k])),
                       avg_temp |-> MeanAvgTemp(GroupRows(frame, keys[k]))]],
                  DateKey, TRUE)

StartCol(i) == df[i].start_station_name
EndCol(i) == df[i].end_station_name
RouteCol(i) == <<df[i].start_station_name, df[i].end_station_name>>  \* start + " -> " + end

Labels(counts) == [k \in 1..Len(counts) |-> counts[k].label]

\* the count a value_counts() result holds for a label, 0 when it holds none
\* (the NaN that concat leaves and fillna(0) fills)
CountFor(counts, label) ==
    IF \E k \in DOMAIN counts : counts[k].label = label
    THEN counts[CHOOSE k \in DOMAIN counts : counts[k].label = label].count
    ELSE 0

\* A faulty variant of BalanceDf: the stations of starts only, as a left
\* join would give.  C9 tells the two apart.
BalanceDfStartsOnly(frame) ==
    LET starts == ValueCounts(Column(frame, StartCol), NoStation)
        ends == ValueCounts(Column(frame, EndCol), NoStation)
        index == Labels(starts)
    IN [k \in 1..Len(index) |->
           [station |-> index[k],
            starts |-> CountFor(starts, index[k]),
            ends |-> CountFor(ends, index[k]),
            net_balance |-> CountFor(starts, index[k]) - CountFor(ends, index[k])]]

NetKey(e) == e.net_balance

\* Station Balance: balance_df
BalanceDf(frame) ==
    LET starts == ValueCounts(Column(frame, StartCol), NoStation)
        ends == ValueCounts(Column(frame, EndCol), NoStation)
        index == FirstSeen(Labels(starts) \o Labels(ends))
    IN [k \in 1..Len(index) |->
           [station |-> index[k],
            starts |-> CountFor(starts, index[k]),
            ends |-> CountFor(ends, index[k]),
            net_balance |-> CountFor(starts, index[k]) - CountFor(ends, index[k])]]

-----------------------------------------------------------------------------
(* Trips & Time Trends: monthly and hourly *)

MonthCol(i) == MonthName(Started(i))        \* column month
HourCol(i) == HourOf(Started(i))            \* column hour

\* df_time.groupby("month").size().reindex([January .. December], fill_value=0)
Monthly(frame) ==
    [m \in 1..Len(MonthNames) |->
        [month |-> MonthNames[m],
         count |-> Len(SelectSeq(frame, LAMBDA i : MonthCol(i) = MonthNames[m]))]]

\* A faulty variant of Hourly: reindexed to the hours 1..24.  C15 tells the
\* two apart.
HourlyFromOne(frame) ==
    [h \in 1..HoursPerDay |->
        [hour |-> h,
         count |-> Len(SelectSeq(frame, LAMBDA i : HourCol(i) = h))]]

\* df_time.groupby("hour").size().reindex(range(24), fill_value=0)
Hourly(frame) ==
    [h \in 1..HoursPerDay |->
        [hour |-> h - 1,
         count |-> Len(SelectSeq(frame, LAMBDA i : HourCol(i) = h - 1))]]

\* hourly.idxmax(): the label of the first largest value
IdxMax(series) ==
    series[CHOOSE k \in DOMAIN series :
               /\ \A j \in DOMAIN series : series[j].count <= series[k].count
               /\ \A j \in 1..(k - 1) : series[j].count < series[k].count].hour

-----------------------------------------------------------------------------
(* Metrics.  A float is a fraction <<numerator, denominator>>, NaN the
   fraction <<0, 0>>.  The text of a metric is a number, scaled by the
   decimals it is formatted to, or a marker: "nan" where a NaN is
   formatted, "0" and "N/A" where the script writes that literal. *)

NaNQ == <<0, 0>>

IsNaN(q) == q[2] = 0

AddQ(a, b) == <<a[1] * b[2] + b[1] * a[2], a[2] * b[2]>>

RECURSIVE SumQ(_)
SumQ(values) == IF values = <<>> THEN <<0, 1>> ELSE AddQ(values[1], SumQ(Tail(values)))

\* Series.mean(): NaN for a series without values
MeanQ(values) ==
    IF values = <<>> THEN NaNQ
    ELSE <<SumQ(values)[1], SumQ(values)[2] * Len(values)>>

\* Series.min(), Series.max() of integers: NaN for a series without values
MinQ(values) ==
    IF values = <<>> THEN NaNQ
    ELSE <<CHOOSE m \in Range(values) : \A x \in Range(values) : m <= x, 1>>

MaxQ(values) ==
    IF values = <<>> THEN NaNQ
    ELSE <<CHOOSE m \in Range(values) : \A x \in Range(values) : m >= x, 1>>

RECURSIVE Pow10(_)
Pow10(decimals) == IF decimals = 0 THEN 1 ELSE 10 * Pow10(decimals - 1)

\* the integer nearest to a / b, b > 0, halves upwards
Nearest(a, b) == (2 * a + b) \div (2 * b)

Text(marker, number) == [marker |-> marker, number |-> number]

\* A faulty variant of FormatFloat: a NaN shows as the number 0.  C12
\* tells the two apart.
FormatFloatZero(q, decimals) ==
    IF IsNaN(q) THEN Text("", 0)
    ELSE Text("", Nearest(q[1] * Pow10(decimals), q[2]))

\* f"{q:.<decimals>f}": "nan" for NaN, else q rounded to that many decimals
FormatFloat(q, decimals) ==
    IF IsNaN(q) THEN Text("nan", 0)
    ELSE Text("", Nearest(q[1] * Pow10(decimals), q[2]))

FormatInt(n) == Text("", n)                 \* f"{n:,}"

Literal(text) == Text(text, 0)              \* a string the script spells out

Metric(label, text) == [label |-> label, text |-> text]

Ints(values) == [k \in DOMAIN values |-> <<values[k], 1>>]

TripCounts(daily) == [k \in DOMAIN daily |-> daily[k].trip_count]

RECURSIVE SumInts(_)
SumInts(values) == IF values = <<>> THEN 0 ELSE values[1] + SumInts(Tail(values))

\* Trips & Time Trends: col1, col2, col3
TripsMetrics(frame, daily, hourly) ==
    <<Metric("Trips (filtered)", FormatInt(Len(frame))),
      Metric("Avg trips / day",
             IF Len(daily) # 0 THEN FormatFloat(MeanQ(Ints(TripCounts(daily))), 0)
             ELSE Literal("0")),
      Metric("Peak hour",
             IF SumInts([k \in DOMAIN hourly |-> hourly[k].count]) # 0
             THEN FormatInt(IdxMax(hourly))
             ELSE Literal("N/A"))>>

\* Weather Impact: col1, col2, col3
WeatherMetrics(daily_weather) ==
    <<Metric("Trips (filtered)", FormatInt(SumInts(TripCounts(daily_weather)))),
      Metric("Avg temp",
             FormatFloat(MeanQ([k \in DOMAIN daily_weather |-> daily_weather[k].avg_temp]), 1)),
      Metric("Avg precip",
             FormatFloat(MeanQ([k \in DOMAIN daily_weather |-> daily_weather[k].prcp]), 2))>>

\* Stations & Routes: col1, col2, col3
StationsMetrics(frame) ==
    <<Metric("Trips", FormatInt(Len(frame))),
      Metric("Unique start stations",
             FormatInt(Cardinality({df[frame[k]].start_station_name : k \in DOMAIN frame}))),
      Metric("Unique routes",
             FormatInt(Cardinality({<<df[frame[k]].start_station_name,
                                      df[frame[k]].end_station_name>> : k \in DOMAIN frame})))>>

\* Station Balance: col1, col2, col3
BalanceMetrics(balance_df, losing, gaining) ==
    <<Metric("Stations analyzed", FormatInt(Len(balance_df))),
      Metric("Worst net loss",
             FormatFloat(MinQ([k \in DOMAIN losing |-> losing[k].net_balance]), 0)),
      Metric("Worst net gain",
             FormatFloat(MaxQ([k \in DOMAIN gaining |-> gaining[k].net_balance]), 0))>>

-----------------------------------------------------------------------------
(* One run of the script: what a page leaves behind *)

\* status: "ok" the run reached the end of the page; "stopped" st.error and
\* st.stop(); "raised" an exception nobody catches (Streamlit shows its
\* traceback).  missing: the columns the st.error message names.  key: the
\* column a KeyError names.  shown: the sidebar widgets the run rendered.
\* tables: the derived tables the run computed.  frame: the page's frame
\* after its filters.  start_d, end_d, rider_filter: the filter values used.
\* metrics: the st.metric boxes of the page, left to right.
NoRun ==
    [status |-> "ok", missing |-> <<>>, exception |-> "", key |-> "",
     shown |-> {}, tables |-> {}, frame |-> <<>>,
     start_d |-> 0, end_d |-> 0, rider_filter |-> "All",
     daily |-> <<>>, top_stations |-> <<>>, start_counts |-> <<>>,
     end_counts |-> <<>>, route_counts |-> <<>>, balance_df |-> <<>>,
     losing |-> <<>>, gaining |-> <<>>,
     monthly |-> <<>>, hourly |-> <<>>, metrics |-> <<>>]

\* st.error(...); st.stop()
Stopped(missing) == [NoRun EXCEPT !.status = "stopped", !.missing = missing]

Raised(exception, key, shown) ==
    [NoRun EXCEPT !.status = "raised", !.exception = exception, !.key = key,
                  !.shown = shown]

\* missing = [c for c in required_cols if c not in df.columns]
Missing(required_cols) == SelectSeq(required_cols, LAMBDA c : c \notin columns)

\* rider_filter = "All"; if "member_casual" in columns: rider_filter = selectbox(...)
RiderFilter(w) == IF "member_casual" \in columns THEN w.rider ELSE "All"

RiderWidget == IF "member_casual" \in columns THEN {"rider"} ELSE {}

\* if rider_filter != "All" and "member_casual" in columns: frame = frame[...]
ApplyRider(frame, w) ==
    IF RiderFilter(w) # "All" /\ "member_casual" \in columns
    THEN RiderMask(frame, RiderFilter(w))
    ELSE frame

\* Trips & Time Trends: df_time before the sidebar filters
TripsPrepared == Keep(AllRows, LAMBDA i : Started(i) # NaT)

TripsPage(w) ==
    IF "started_at" \notin columns THEN Stopped(<<"started_at">>)
    ELSE IF Len(w.dates) # 2
    THEN Raised("ValueError", "", {"date"})      \* start_d, end_d = (one date,)
    ELSE LET df_time == ApplyRider(DateMask(TripsPrepared, w.dates[1], w.dates[2]), w)
         IN [NoRun EXCEPT !.shown = {"date"} \cup RiderWidget,
                          !.start_d = w.dates[1], !.end_d = w.dates[2],
                          !.rider_filter = RiderFilter(w),
                          !.frame = df_time,
                          !.tables = {"daily", "monthly", "hourly"},
                          !.daily = DailyTrips(df_time),
                          !.monthly = Monthly(df_time),
                          !.hourly = Hourly(df_time),
                          !.metrics = TripsMetrics(df_time, DailyTrips(df_time),
                                                   Hourly(df_time))]

\* Weather Impact: df_w before the sidebar filters
WeatherPrepared ==
    Keep(AllRows, LAMBDA i : Started(i) # NaT /\ Tmax(i) # NaNNum
                             /\ Tmin(i) # NaNNum /\ Prcp(i) # NaNNum)

WeatherPage(w) ==
    LET missing == Missing(<<"started_at", "TMAX", "TMIN", "PRCP">>)
    IN IF missing # <<>> THEN Stopped(missing)
       ELSE IF Len(w.dates) # 2
       THEN Raised("ValueError", "", {"date"})
       ELSE LET df_w == ApplyRider(DateMask(WeatherPrepared, w.dates[1], w.dates[2]), w)
            IN [NoRun EXCEPT !.shown = {"date"} \cup RiderWidget,
                             !.start_d = w.dates[1], !.end_d = w.dates[2],
                             !.rider_filter = RiderFilter(w),
                             !.frame = df_w,
                             !.tables = {"daily"},
                             !.daily = DailyWeather(df_w),
                             !.metrics = WeatherMetrics(DailyWeather(df_w))]

\* Dual-Axis: df_time before the aggregation
DualPrepared ==
    Keep(AllRows, LAMBDA i : Started(i) # NaT /\ Tmax(i) # NaNNum /\ Tmin(i) # NaNNum)

DualAxisPage(w) ==
    LET missing == Missing(<<"started_at", "TMAX", "TMIN">>)
    IN IF missing # <<>> THEN Stopped(missing)
       ELSE IF "ride_id" \notin columns
       THEN Raised("KeyError", "ride_id", {})    \* trip_count=("ride_id", "count")
       ELSE [NoRun EXCEPT !.frame = DualPrepared,
                          !.tables = {"daily"},
                          !.daily = DailySummary(DualPrepared)]

PopularStationsPage(w) ==
    IF "start_station_name" \notin columns
    THEN Raised("KeyError", "start_station_name", {"top_n"})   \* df["start_station_name"]
    ELSE [NoRun EXCEPT !.shown = {"top_n"},
                       !.frame = AllRows,
                       !.tables = {"top_stations"},
                       !.top_stations = TopN(Column(AllRows, StartCol), NoStation, w.top_n)]

\* A faulty variant of StationsPrepared: rows without end station stay.
\* C10 tells the two apart.
StationsPreparedStartOnly ==
    LET with_stations == Keep(AllRows, LAMBDA i : StartCol(i) # NoStation)
    IN IF "started_at" \in columns
       THEN Keep(with_stations, LAMBDA i : Started(i) # NaT)
       ELSE with_stations

\* Stations & Routes, Station Balance: the frame before the sidebar filters
StationsPrepared ==
    LET with_stations == Keep(AllRows, HasStations)
    IN IF "started_at" \in columns
       THEN Keep(with_stations, LAMBDA i : Started(i) # NaT)
       ELSE with_stations

StationsRoutesPage(w) ==
    LET missing == Missing(<<"start_station_name", "end_station_name">>)
        dated == "started_at" \in columns
    IN IF missing # <<>> THEN Stopped(missing)
       ELSE IF dated /\ Len(w.dates) # 2
       THEN Raised("ValueError", "", {"date"})
       ELSE LET masked == IF dated
                          THEN DateMask(StationsPrepared, w.dates[1], w.dates[2])
                          ELSE StationsPrepared
                df_sr == ApplyRider(masked, w)
            IN [NoRun EXCEPT !.shown = (IF dated THEN {"date"} ELSE {}) \cup RiderWidget
                                         \cup {"top_n", "top_n_routes"},
                             !.start_d = IF dated THEN w.dates[1] ELSE 0,
                             !.end_d = IF dated THEN w.dates[2] ELSE 0,
                             !.rider_filter = RiderFilter(w),
                             !.frame = df_sr,
                             !.tables = {"start_counts", "end_counts", "route_counts"},
                             !.start_counts = TopN(Column(df_sr, StartCol), NoStation, w.top_n),
                             !.end_counts = TopN(Column(df_sr, EndCol), NoStation, w.top_n),
                             !.route_counts = TopN(Column(df_sr, RouteCol), <<>>, w.top_n_routes),
                             !.metrics = StationsMetrics(df_sr)]

StationBalancePage(w) ==
    LET missing == Missing(<<"start_station_name", "end_station_name">>)
        dated == "started_at" \in columns
    IN IF missing # <<>> THEN Stopped(missing)
       ELSE IF dated /\ Len(w.dates) # 2
       THEN Raised("ValueError", "", {"date"})
       ELSE LET df_bal == IF dated
                          THEN DateMask(StationsPrepared, w.dates[1], w.dates[2])
                          ELSE StationsPrepared
                balance_df == BalanceDf(df_bal)
                losing == Head_(SortValues(balance_df, NetKey, TRUE), w.top_n)
                gaining == Head_(SortValues(balance_df, NetKey, FALSE), w.top_n)
            IN [NoRun EXCEPT !.shown = (IF dated THEN {"date"} ELSE {}) \cup {"top_n"},
                             !.start_d = IF dated THEN w.dates[1] ELSE 0,
                             !.end_d = IF dated THEN w.dates[2] ELSE 0,
                             !.frame = df_bal,
                             !.tables = {"balance_df", "losing", "gaining"},
                             !.balance_df = balance_df,
                             !.losing = losing,
                             !.gaining = gaining,
                             !.metrics = BalanceMetrics(balance_df, losing, gaining)]

\* the if / elif chain over page
Render(p, w) ==
    CASE p = "Trips & Time Trends" -> TripsPage(w)
      [] p = "Weather Impact" -> WeatherPage(w)
      [] p = "Stations & Routes" -> StationsRoutesPage(w)
      [] p = "Dual-Axis: Trips vs Temperature" -> DualAxisPage(w)
      [] p = "Popular Stations" -> PopularStationsPage(w)
      [] p = "Station Balance (Supply Problem)" -> StationBalancePage(w)
      [] OTHER -> NoRun            \* Intro, Overview, Kepler.gl Map: no derived table

-----------------------------------------------------------------------------
(* The earlier dashboard, src/unnamed/part_000: one page, no widget.  Its
   CSV has the day of a trip in a column "date"; the model reads it from
   the started_at cell. *)

TOP_N == 20

\* load_data(): df.dropna(subset=["date", "avg_temp"])
Part1Loaded ==
    Keep(AllRows, LAMBDA i : Started(i) # NaT /\ Tmax(i) # NaNNum /\ Tmin(i) # NaNNum)

\* daily = pd.merge(daily_trips, daily_temp, on="date").sort_values("date")
Part1Daily(frame) ==
    LET dates == StableSort(FirstSeen(Column(frame, Started)), Identity, TRUE)
        Group(d) == Keep(frame, LAMBDA i : Started(i) = d)
    IN SortValues([k \in 1..Len(dates) |->
                      [date |-> dates[k],
                       trip_count |-> GroupSize(Group(dates[k])),
                       avg_temp |-> MeanAvgTemp(Group(dates[k]))]],
                  DateKey, TRUE)

Part1Run ==
    IF {"started_at", "TMAX", "TMIN"} \subseteq columns
    THEN IF "start_station_name" \in columns
         THEN [status |-> "ok", frame |-> Part1Loaded,
               top_stations |->
                   Head_(ValueCounts(Column(Part1Loaded, StartCol), NoStation), TOP_N),
               daily |-> Part1Daily(Part1Loaded)]
         ELSE [status |-> "raised", frame |-> <<>>, top_stations |-> <<>>, daily |-> <<>>]
    ELSE [status |-> "raised", frame |-> <<>>, top_stations |-> <<>>, daily |-> <<>>]

-----------------------------------------------------------------------------
(* Sidebar widgets *)

\* the frame whose dates give a page's date_input its min_value and max_value
DateFrame(p) ==
    CASE p = "Trips & Time Trends" -> TripsPrepared
      [] p = "Weather Impact" -> WeatherPrepared
      [] OTHER -> StationsPrepared

\* whether a run of page p gets as far as its date_input
HasDateInput(p) ==
    CASE p = "Trips & Time Trends" -> "started_at" \in columns
      [] p = "Weather Impact" -> Missing(<<"started_at", "TMAX", "TMIN", "PRCP">>) = <<>>
      [] p \in {"Stations & Routes", "Station Balance (Supply Problem)"} ->
             /\ Missing(<<"start_station_name", "end_station_name">>) = <<>>
             /\ "started_at" \in columns
      [] OTHER -> FALSE

\* the positions of a slider(label, 5, 30, 10) that the model tries
SliderPositions == {TopNMin, TopNDefault}

\* A widget that was not on screen in the last run starts from its value=
\* argument: (min_date, max_date), "All", 10.
DefaultWidgets(p) ==
    [dates |-> IF HasDateInput(p)
               THEN <<MinDate(DateFrame(p)), MaxDate(DateFrame(p))>>
               ELSE <<>>,
     rider |-> "All",
     top_n |-> TopNDefault,
     top_n_routes |-> TopNDefault]

-----------------------------------------------------------------------------
(* df = load_data() at the top of every run *)

\* A faulty variant of LoadData: the cache hands back the frame a page's
\* dropna(subset=["started_at"]) changed in place.  C14 tells the two apart.
LoadDataDropped == SelectSeq(df, LAMBDA row : ToDatetime(row.started_at) # NaT)

\* st.cache_data: every run gets the frame read_csv returned at the first
\* call; the pages work on df.copy(), so nothing a run does reaches it.
LoadData == df

\* A faulty variant of SelectPage: a run that finds tables of the last run
\* shows them again.  C11 tells the two apart.
SelectPageKeepTables(p) ==
    /\ p # page
    /\ page' = p
    /\ widgets' = DefaultWidgets(p)
    /\ out' = IF out.tables # {} THEN out ELSE Render(p, widgets')
    /\ df' = LoadData
    /\ UNCHANGED <<columns, tie_order, part1>>

-----------------------------------------------------------------------------
(* User interactions; each one re-runs the script *)

SelectPage(p) ==
    /\ p # page
    /\ page' = p
    /\ widgets' = DefaultWidgets(p)
    /\ out' = Render(p, widgets')
    /\ df' = LoadData
    /\ UNCHANGED <<columns, tie_order, part1>>

\* the first click in the date range picker: the widget holds one date
PickStartDate(d) ==
    /\ "date" \in out.shown
    /\ d \in MinDate(DateFrame(page))..MaxDate(DateFrame(page))
    /\ widgets' = [widgets EXCEPT !.dates = <<d>>]
    /\ out' = Render(page, widgets')
    /\ df' = LoadData
    /\ UNCHANGED <<columns, tie_order, page, part1>>

\* the second click: the range is complete
PickEndDate(d) ==
    /\ "date" \in out.shown
    /\ Len(widgets.dates) = 1
    /\ d \in widgets.dates[1]..MaxDate(DateFrame(page))
    /\ widgets' = [widgets EXCEPT !.dates = <<widgets.dates[1], d>>]
    /\ out' = Render(page, widgets')
    /\ df' = LoadData
    /\ UNCHANGED <<columns, tie_order, page, part1>>

SelectRider(r) ==
    /\ "rider" \in out.shown
    /\ r # widgets.rider
    /\ widgets' = [widgets EXCEPT !.rider = r]
    /\ out' = Render(page, widgets')
    /\ df' = LoadData
    /\ UNCHANGED <<columns, tie_order, page, part1>>

SlideTopN(n) ==
    /\ "top_n" \in out.shown
    /\ n # widgets.top_n
    /\ widgets' = [widgets EXCEPT !.top_n = n]
    /\ out' = Render(page, widgets')
    /\ df' = LoadData
    /\ UNCHANGED <<columns, tie_order, page, part1>>

SlideTopRoutes(n) ==
    /\ "top_n_routes" \in out.shown
    /\ n # widgets.top_n_routes
    /\ widgets' = [widgets EXCEPT !.top_n_routes = n]
    /\ out' = Render(page, widgets')
    /\ df' = LoadData
    /\ UNCHANGED <<columns, tie_order, page, part1>>

Next ==
    \/ \E p \in Pages : SelectPage(p)
    \/ \E d \in 1..MaxDay : PickStartDate(d)
    \/ \E d \in 1..MaxDay : PickEndDate(d)
    \/ \E r \in RiderTypes : SelectRider(r)
    \/ \E n \in SliderPositions : SlideTopN(n)
    \/ \E n \in SliderPositions : SlideTopRoutes(n)

-----------------------------------------------------------------------------
(* Datasets *)

RowHour == 7         \* the hour of day of the trips of the datasets below

Row(ride_id, started_at, member_casual, start_station, end_station, tmax) ==
    [ride_id |-> ride_id, started_at |-> started_at,
     member_casual |-> member_casual,
     start_station_name |-> start_station, end_station_name |-> end_station,
     TMAX |-> tmax, TMIN |-> <<20>>, PRCP |-> <<0>>]

\* a row no page drops: every cell present and well formed
AnchorRow == Row("id", <<1, RowHour>>, "member", 1, 2, <<40>>)

\* the CSV without the columns outside cols
WithColumns(rows, cols) ==
    [i \in 1..Len(rows) |->
        [ride_id |-> IF "ride_id" \in cols THEN rows[i].ride_id ELSE NaN,
         started_at |-> IF "started_at" \in cols THEN rows[i].started_at ELSE <<>>,
         member_casual |-> IF "member_casual" \in cols THEN rows[i].member_casual ELSE NaN,
         start_station_name |->
             IF "start_station_name" \in cols THEN rows[i].start_station_name ELSE NoStation,
         end_station_name |->
             IF "end_station_name" \in cols THEN rows[i].end_station_name ELSE NoStation,
         TMAX |-> IF "TMAX" \in cols THEN rows[i].TMAX ELSE <<>>,
         TMIN |-> IF "TMIN" \in cols THEN rows[i].TMIN ELSE <<>>,
         PRCP |-> IF "PRCP" \in cols THEN rows[i].PRCP ELSE <<>>]]

SeqsUpTo(S, n) == UNION {[1..k -> S] : k \in 0..n}

\* Session start: load_data(), the selectbox on its first option
Start(datasets, column_sets, tie_orders) ==
    /\ \E rows \in datasets, cols \in column_sets :
          /\ df = WithColumns(rows, cols)
          /\ columns = cols
    /\ tie_order \in tie_orders
    /\ page = "Intro"
    /\ widgets = DefaultWidgets("Intro")
    /\ out = Render("Intro", widgets)
    /\ part1 = Part1Run

\* Any set of columns; the anchor row and a few rows that differ from it in
\* their day, rider type and ride_id.
RowsCols ==
    {Row(id, <<d, RowHour>>, mc, 1, 2, <<40>>) :
        id \in {"id", NaN}, d \in 1..MaxDay, mc \in {"member", "casual"}}

DatasetsCols == {<<AnchorRow>> \o rest : rest \in SeqsUpTo(RowsCols, MaxColRows)}

Init == Start(DatasetsCols, SUBSET AllColumns, TieOrders)

Spec == Init /\ [][Next]_vars

-----------------------------------------------------------------------------
(* Datasets that differ in the start day and the rider type of their rows *)

RowsRows ==
    {Row("id", started_at, mc, 1, 2, <<40>>) :
        started_at \in {<<>>} \cup {<<d, RowHour>> : d \in 1..MaxDay},
        mc \in {"member", "casual"}}

DatasetsRows ==
    {rows \in SeqsUpTo(RowsRows, MaxRows) : \E i \in DOMAIN rows : rows[i].started_at # <<>>}

ColumnSetsRows ==
    {AllColumns, AllColumns \ {"member_casual"}, AllColumns \ {"ride_id"}}

\* every row has the same stations: no sort of these datasets meets equal keys
InitRows == Start(DatasetsRows, ColumnSetsRows, {"first_seen"})

SpecRows == InitRows /\ [][Next]_vars

-----------------------------------------------------------------------------
(* Datasets that differ in the start stations of their rows.  Stations are
   interchangeable, so the k-th station to appear is station k. *)

NumStations == TopNMin + 1      \* one station more than the shortest ranking keeps

MaxOf(s) == IF s = <<>> THEN 0 ELSE CHOOSE m \in Range(s) : \A x \in Range(s) : m >= x

RECURSIVE StationSeqs(_)
StationSeqs(n) ==
    IF n = 0 THEN {<<>>}
    ELSE UNION {{Append(s, k) : k \in 1..Min2(MaxOf(s) + 1, NumStations)} :
                   s \in StationSeqs(n - 1)}

RankRow(station) == Row("id", <<1, RowHour>>, "member", station, 1, <<40>>)

\* a row whose start station cell is empty
NoStartRow == Row("id", <<1, RowHour>>, "member", NoStation, 1, <<40>>)

\* The datasets in which every one of the NumStations stations starts a
\* trip (a ranking of TopNMin leaves one out), the short ones, and each of
\* them behind a row without start station.
DatasetsRank ==
    LET seqs == UNION {{s \in StationSeqs(n) : MaxOf(s) = NumStations \/ n <= MaxShortRows} :
                          n \in 1..MaxRankRows}
        ranked == {[i \in 1..Len(s) |-> RankRow(s[i])] : s \in seqs}
    IN ranked \cup {<<NoStartRow>> \o rows : rows \in {r \in ranked : Len(r) < MaxRankRows}}

InitRank == Start(DatasetsRank, {AllColumns}, TieOrders)

SpecRank == InitRank /\ [][Next]_vars

-----------------------------------------------------------------------------
(* Datasets that differ in the stations of their rows: the anchor row, a
   trip from station 1 to station 2 on day 1, and trips of the last day
   between these stations, some without a start or an end station *)

RowsBal ==
    {Row("id", <<MaxDay, RowHour>>, "member", s, e, <<40>>) :
        s \in {NoStation, 1, 2}, e \in {NoStation, 1, 2}}

DatasetsBal == {<<AnchorRow>> \o rest : rest \in SeqsUpTo(RowsBal, MaxBalRows)}

InitBal == Start(DatasetsBal, {AllColumns, AllColumns \ {"started_at"}}, TieOrders)

SpecBal == InitBal /\ [][Next]_vars

-----------------------------------------------------------------------------
(* Datasets that differ in the day, the hour and the rider type of their
   rows.  Trips start on day 1 (31 January) or on day MaxDay + 1 (in
   February), in the first or the last hour of the day; the date picker
   offers the days 1..MaxDay, so a range can lie between the two days and
   match no trip. *)

MaxTimeRows == 2     \* rows of a dataset of DatasetsTime

\* a member's trip in the first or the last hour, a casual rider's in the first
RowsTime ==
    {Row("id", <<d, hm[1]>>, hm[2], 1, 2, <<40>>) :
        d \in {1, MaxDay + 1},
        hm \in {<<0, "member">>, <<HoursPerDay - 1, "member">>, <<0, "casual">>}}

DatasetsTime == SeqsUpTo(RowsTime, MaxTimeRows) \ {<<>>}

\* every row has the same stations: no sort of these datasets meets equal keys
InitTime == Start(DatasetsTime, {AllColumns}, {"first_seen"})

SpecTime == InitTime /\ [][Next]_vars

-----------------------------------------------------------------------------
(* Claims settled under Spec *)

\* the columns a page needs for its aggregation, in the order it checks them
RequiredColumns(p) ==
    CASE p = "Trips & Time Trends" -> <<"started_at">>
      [] p = "Weather Impact" -> <<"started_at", "TMAX", "TMIN", "PRCP">>
      [] p = "Dual-Axis: Trips vs Temperature" -> <<"started_at", "TMAX", "TMIN">>
      [] p = "Popular Stations" -> <<"start_station_name">>
      [] p \in {"Stations & Routes", "Station Balance (Supply Problem)"} ->
             <<"start_station_name", "end_station_name">>
      [] OTHER -> <<>>

Absent(p) == SelectSeq(RequiredColumns(p), LAMBDA c : c \notin columns)

\* the date range input holds a complete (start, end) pair, or is not there
DateRangeComplete == Len(widgets.dates) # 1

\* C2: on every page, if a column required for its aggregation is absent,
\* the run ends with the missing-column report naming exactly the absent
\* columns, and no derived table is produced.
C2_MissingColumnReported ==
    Absent(page) # <<>> =>
        /\ out.status = "stopped"
        /\ out.missing = Absent(page)
        /\ out.tables = {}

\* C3: after a render aborted by a missing-column report, selecting another
\* page whose required columns are present renders that page normally, and
\* the dataset is the one loaded.
C3_SessionContinuesAfterAbort ==
    [][(out.status = "stopped" /\ page' # page /\ Absent(page') = <<>>) =>
           (out'.status = "ok" /\ df' = df /\ columns' = columns)]_vars

\* C4: with ride_id or member_casual absent, every page that uses the
\* column still renders its tables: the daily trip count is the row count
\* per date, and the rider filter behaves as All.
C4_OptionalColumnsDegrade ==
    /\ ("ride_id" \notin columns
            /\ page \in {"Weather Impact", "Dual-Axis: Trips vs Temperature"}
            /\ Absent(page) = <<>> /\ DateRangeComplete) =>
           /\ out.status = "ok"
           /\ \A k \in DOMAIN out.daily :
                  out.daily[k].trip_count =
                      Len(Keep(out.frame, LAMBDA i : DateCol(i) = out.daily[k].date))
    /\ ("member_casual" \notin columns
            /\ page \in {"Trips & Time Trends", "Weather Impact", "Stations & Routes"}
            /\ Absent(page) = <<>> /\ DateRangeComplete) =>
           /\ out.status = "ok"
           /\ out.rider_filter = "All"
           /\ \A i \in Range(DateFrame(page)) :
                  ("date" \in out.shown =>
                       DateOf(DateCol(i)) \in widgets.dates[1]..widgets.dates[2])
                  => i \in Range(out.frame)

\* C5: on every page that builds a daily series, trip_count of a date is the
\* number of filtered rows whose start timestamp floors to that date.
C5_TripCountIsRowCount ==
    "daily" \in out.tables =>
        \A k \in DOMAIN out.daily :
            out.daily[k].trip_count =
                Cardinality({i \in Range(out.frame) :
                                 FloorD(Started(i)) = out.daily[k].date})

-----------------------------------------------------------------------------
(* Claims settled under SpecRows *)

\* the day a row of df starts on, read from its cell; 0 when the cell is
\* no timestamp
StartDay(i) == IF Len(df[i].started_at) = 2 THEN df[i].started_at[1] ELSE 0

\* the last run applied a date filter, a rider filter
DateFiltered == out.status = "ok" /\ "date" \in out.shown
RiderFiltered == out.status = "ok" /\ "rider" \in out.shown /\ widgets.rider # "All"

\* C1: the filtered rows a page aggregates over are rows of the dataset,
\* none added, none twice, in their original order; each starts on a day
\* within the selected range, bounds included, and, when a rider type is
\* selected, has that rider type.
C1_FilteredRowsSatisfyFilters ==
    out.status = "ok" =>
        /\ \A k \in DOMAIN out.frame : out.frame[k] \in DOMAIN df
        /\ \A j, k \in DOMAIN out.frame : j < k => out.frame[j] < out.frame[k]
        /\ DateFiltered =>
               \A k \in DOMAIN out.frame :
                   /\ StartDay(out.frame[k]) >= widgets.dates[1]
                   /\ StartDay(out.frame[k]) <= widgets.dates[2]
        /\ RiderFiltered =>
               \A k \in DOMAIN out.frame : df[out.frame[k]].member_casual = widgets.rider

\* C1 witness: Trips & Time Trends with the range narrowed to day 2 and
\* rider type casual keeps a row and filters out a member's trip of day 1.
C1_Witness ==
    /\ page = "Trips & Time Trends"
    /\ DateFiltered /\ RiderFiltered
    /\ widgets.dates = <<2, 2>> /\ widgets.rider = "casual"
    /\ out.frame # <<>>
    /\ \E i \in DOMAIN df :
           StartDay(i) = 1 /\ df[i].member_casual = "member" /\ i \notin Range(out.frame)

\* the dates of a daily series are strictly increasing and are the dates
\* of the rows of frame
DailyDatesOf(daily, frame, Date(_)) ==
    /\ \A j, k \in DOMAIN daily : j < k => daily[j].date < daily[k].date
    /\ {daily[k].date : k \in DOMAIN daily} = {Date(frame[k]) : k \in DOMAIN frame}

\* no row of the page's prepared frame passes the filters of the widgets
NothingPasses ==
    \A i \in Range(DateFrame(page)) :
        \/ StartDay(i) < widgets.dates[1]
        \/ StartDay(i) > widgets.dates[2]
        \/ "member_casual" \in columns /\ widgets.rider # "All"
               /\ df[i].member_casual # widgets.rider

\* C6: a daily series has exactly one entry per date of the filtered rows,
\* in strictly increasing date order, and filters that no row passes give
\* an empty series, not an error.
C6_DailySeriesSortedUnique ==
    /\ "daily" \in out.tables => DailyDatesOf(out.daily, out.frame, DateCol)
    /\ part1.status = "ok" => DailyDatesOf(part1.daily, part1.frame, Started)
    /\ (page \in {"Trips & Time Trends", "Weather Impact"}
            /\ Absent(page) = <<>> /\ DateRangeComplete /\ NothingPasses) =>
           (out.status = "ok" /\ "daily" \in out.tables /\ out.daily = <<>>)

\* C6 witness: the dataset has a trip of day 2 before a trip of day 1, and
\* the daily series of Trips & Time Trends has both days.
C6_Witness ==
    /\ page = "Trips & Time Trends"
    /\ out.status = "ok"
    /\ Len(out.daily) = 2
    /\ Len(df) = 2 /\ StartDay(1) = 2 /\ StartDay(2) = 1

-----------------------------------------------------------------------------
(* Claims settled under SpecRank *)

\* the labels a ranking lists, the values of a column that are not missing
Ranked(ranking) == {ranking[k].label : k \in DOMAIN ranking}
Distinct(values, null) == Range(values) \ {null}

\* ranking has min(n, number of distinct non-null values) entries, one per
\* label, each with the number of rows that hold its label, in
\* non-decreasing order of count, and no label left out has a larger count
\* than a label in it
MostFrequent(ranking, values, null, n) ==
    /\ Len(ranking) = Min2(n, Cardinality(Distinct(values, null)))
    /\ Cardinality(Ranked(ranking)) = Len(ranking)
    /\ \A k \in DOMAIN ranking :
           /\ ranking[k].label \in Distinct(values, null)
           /\ ranking[k].count = Count(values, ranking[k].label)
    /\ \A j, k \in DOMAIN ranking : j < k => ranking[j].count <= ranking[k].count
    /\ \A x \in Distinct(values, null) \ Ranked(ranking) :
           \A k \in DOMAIN ranking : Count(values, x) <= ranking[k].count

\* C7: every ranking of the last run (Popular Stations' top_stations,
\* Stations & Routes' start_counts, end_counts and route_counts) holds the
\* n most frequent non-null values of its column with their counts, n the
\* position of its slider.
C7_TopNMostFrequent ==
    /\ "top_stations" \in out.tables =>
           MostFrequent(out.top_stations, Column(out.frame, StartCol), NoStation, widgets.top_n)
    /\ "start_counts" \in out.tables =>
           MostFrequent(out.start_counts, Column(out.frame, StartCol), NoStation, widgets.top_n)
    /\ "end_counts" \in out.tables =>
           MostFrequent(out.end_counts, Column(out.frame, EndCol), NoStation, widgets.top_n)
    /\ "route_counts" \in out.tables =>
           MostFrequent(out.route_counts, Column(out.frame, RouteCol), <<>>,
                        widgets.top_n_routes)

\* C7 witness: Popular Stations with the slider at its smallest position,
\* more stations than that, and stations of different counts in the ranking.
C7_Witness ==
    /\ page = "Popular Stations"
    /\ out.status = "ok"
    /\ widgets.top_n = TopNMin
    /\ Len(out.top_stations) = TopNMin
    /\ Cardinality({df[i].start_station_name : i \in DOMAIN df} \ {NoStation}) > TopNMin
    /\ \E j, k \in DOMAIN out.top_stations :
           out.top_stations[j].count < out.top_stations[k].count

\* the row of values in which x appears first
FirstRow(values, x) ==
    CHOOSE i \in DOMAIN values : values[i] = x /\ \A j \in 1..(i - 1) : values[j] # x

\* among labels of equal count, the ones that appear first in values make
\* the cut, and ranking lists them in the order of their first appearance
TiesByFirstAppearance(ranking, values, null) ==
    /\ \A x \in Ranked(ranking) : \A y \in Distinct(values, null) \ Ranked(ranking) :
           Count(values, x) = Count(values, y) => FirstRow(values, x) < FirstRow(values, y)
    /\ \A j, k \in DOMAIN ranking :
           (j < k /\ ranking[j].count = ranking[k].count) =>
               FirstRow(values, ranking[j].label) < FirstRow(values, ranking[k].label)

\* C8: in every ranking of the last run, labels of equal count are ordered
\* by their first appearance in the filtered rows, at the cut at position
\* n and in the ranking itself.
C8_TiesByFirstAppearance ==
    /\ "top_stations" \in out.tables =>
           TiesByFirstAppearance(out.top_stations, Column(out.frame, StartCol), NoStation)
    /\ "start_counts" \in out.tables =>
           TiesByFirstAppearance(out.start_counts, Column(out.frame, StartCol), NoStation)

-----------------------------------------------------------------------------
(* Claims settled under SpecBal *)

BalanceShown == page = "Station Balance (Supply Problem)" /\ out.status = "ok"

StartsAt(station) == Cardinality({k \in DOMAIN out.frame : StartCol(out.frame[k]) = station})
EndsAt(station) == Cardinality({k \in DOMAIN out.frame : EndCol(out.frame[k]) = station})

\* C9: the balance table has one record per station that is the start or
\* the end station of a filtered row, with the number of rows that start
\* there, the number that end there (0 when none does) and their
\* difference.
C9_BalanceCoversUnion ==
    BalanceShown =>
        /\ {out.balance_df[k].station : k \in DOMAIN out.balance_df}
               = {StartCol(out.frame[k]) : k \in DOMAIN out.frame}
                     \cup {EndCol(out.frame[k]) : k \in DOMAIN out.frame}
        /\ \A j, k \in DOMAIN out.balance_df :
               j # k => out.balance_df[j].station # out.balance_df[k].station
        /\ \A k \in DOMAIN out.balance_df :
               /\ out.balance_df[k].starts = StartsAt(out.balance_df[k].station)
               /\ out.balance_df[k].ends = EndsAt(out.balance_df[k].station)
               /\ out.balance_df[k].net_balance
                      = StartsAt(out.balance_df[k].station) - EndsAt(out.balance_df[k].station)

\* C9 witness: a station where trips end and none starts, next to a
\* station where trips start and end.
C9_Witness ==
    /\ BalanceShown
    /\ \E k \in DOMAIN out.balance_df :
           out.balance_df[k].starts = 0 /\ out.balance_df[k].ends > 0
    /\ \E k \in DOMAIN out.balance_df :
           out.balance_df[k].starts > 0 /\ out.balance_df[k].ends > 0

\* C10: the net balances of the balance table add up to zero.
C10_NetBalanceSumsToZero ==
    BalanceShown => SumOf(NetKey, out.balance_df) = 0

\* C10 witness: stations with a surplus and a deficit, from a dataset with
\* a row that has a start station and no end station.
C10_Witness ==
    /\ BalanceShown
    /\ \E k \in DOMAIN out.balance_df : out.balance_df[k].net_balance > 0
    /\ \E i \in DOMAIN df :
           df[i].start_station_name # NoStation /\ df[i].end_station_name = NoStation

-----------------------------------------------------------------------------
(* Claims about the session as a whole, settled under SpecRows *)

PageTables(p) ==
    CASE p = "Trips & Time Trends" -> {"daily", "monthly", "hourly"}
      [] p \in {"Weather Impact", "Dual-Axis: Trips vs Temperature"} -> {"daily"}
      [] p = "Popular Stations" -> {"top_stations"}
      [] p = "Stations & Routes" -> {"start_counts", "end_counts", "route_counts"}
      [] p = "Station Balance (Supply Problem)" -> {"balance_df", "losing", "gaining"}
      [] OTHER -> {}

\* the last run holds the tables of the page on screen and no other
NothingCarried ==
    /\ out.tables \subseteq PageTables(page)
    /\ "daily" \notin out.tables => out.daily = <<>>
    /\ "top_stations" \notin out.tables => out.top_stations = <<>>
    /\ "start_counts" \notin out.tables => out.start_counts = <<>>
    /\ "end_counts" \notin out.tables => out.end_counts = <<>>
    /\ "route_counts" \notin out.tables => out.route_counts = <<>>
    /\ "balance_df" \notin out.tables => out.balance_df = <<>>
    /\ "losing" \notin out.tables => out.losing = <<>>
    /\ "gaining" \notin out.tables => out.gaining = <<>>
    /\ "monthly" \notin out.tables => out.monthly = <<>>
    /\ "hourly" \notin out.tables => out.hourly = <<>>
    /\ out.tables = {} => out.metrics = <<>>

-----------------------------------------------------------------------------
(* Claims settled under SpecTime *)

FilterPages ==
    {"Trips & Time Trends", "Weather Impact", "Stations & Routes",
     "Station Balance (Supply Problem)"}

\* the metrics that are a mean, a minimum, a maximum or a peak
AggregateMetrics ==
    {"Avg trips / day", "Peak hour", "Avg temp", "Avg precip",
     "Worst net loss", "Worst net gain"}

NoValueMarkers == {"0", "N/A", "nan"}

\* the filters of the page on screen are complete and no row passes them
ZeroRowsMatch ==
    /\ page \in FilterPages
    /\ HasDateInput(page)
    /\ DateRangeComplete
    /\ NothingPasses

C13_DateRangeIsPair ==
    HasDateInput(page) =>
        /\ Len(widgets.dates) = 2
        /\ MinDate(DateFrame(page)) <= widgets.dates[1]
        /\ widgets.dates[1] <= widgets.dates[2]
        /\ widgets.dates[2] <= MaxDate(DateFrame(page))
        /\ out.status = "ok"
        /\ out.start_d = widgets.dates[1] /\ out.end_d = widgets.dates[2]

\* the property C13 asks for holds in the states where the range is complete
C13_CompleteRangeIsValid ==
    (HasDateInput(page) /\ DateRangeComplete) =>
        /\ MinDate(DateFrame(page)) <= widgets.dates[1]
        /\ widgets.dates[1] <= widgets.dates[2]
        /\ widgets.dates[2] <= MaxDate(DateFrame(page))
        /\ out.status = "ok"
        /\ out.start_d = widgets.dates[1] /\ out.end_d = widgets.dates[2]

\* the counts of a series, the number of Trips & Time Trends' first metric
Counts(series) == [k \in DOMAIN series |-> series[k].count]
TripsFiltered == out.metrics[1].text.number

\* C15: on Trips & Time Trends the monthly series has the 12 months
\* January..December in calendar order, the hourly series the 24 hours
\* 0..23, each hour with the number of filtered rows that start in it (0
\* where none does), and the daily, the monthly and the hourly counts each
\* add up to the number of filtered rows, the number shown as
\* "Trips (filtered)".
C15_MonthlyHourlyComplete ==
    (page = "Trips & Time Trends" /\ out.status = "ok") =>
        /\ [m \in DOMAIN out.monthly |-> out.monthly[m].month] = MonthNames
        /\ Len(out.monthly) = 12
        /\ Len(out.hourly) = 24
        /\ \A h \in DOMAIN out.hourly :
               /\ out.hourly[h].hour = h - 1
               /\ out.hourly[h].count =
                      Cardinality({k \in DOMAIN out.frame :
                                       df[out.frame[k]].started_at[2] = h - 1})
        /\ out.metrics[1].label = "Trips (filtered)"
        /\ out.metrics[1].text.marker = ""
        /\ TripsFiltered = Len(out.frame)
        /\ SumInts(TripCounts(out.daily)) = TripsFiltered
        /\ SumInts(Counts(out.monthly)) = TripsFiltered
        /\ SumInts(Counts(out.hourly)) = TripsFiltered

\* C15 witness: with the rider filter on members, a trip of January in the
\* first hour and a trip of February in the last hour are shown, and a
\* month and an hour without trips show 0.
C15_Witness ==
    /\ page = "Trips & Time Trends"
    /\ out.status = "ok"
    /\ widgets.rider = "member"
    /\ out.monthly[1].count > 0 /\ out.monthly[2].count > 0 /\ out.monthly[3].count = 0
    /\ out.hourly[1].count > 0 /\ out.hourly[24].count > 0 /\ out.hourly[2].count = 0

====
